---- MODULE Spec2Model ----
(***************************************************************************)
(* Concept Dependency Graph Builder and Prerequisite Leveling Engine of    *)
(* youtube-transcripts-notes-graphing: concept_extractor.get_global_       *)
(* concepts, concept_graph.py and prerequisite_order.py.                   *)
(*                                                                         *)
(* Python values are modelled as follows.                                  *)
(*   dict (insertion ordered)   a function, plus a sequence of keys where  *)
(*                              the iteration order is read by the code    *)
(*   nx.DiGraph                 [nodes, attr, edges]: nodes in insertion   *)
(*                              order, edges in insertion order, each edge *)
(*                              [u, v, data] with data the attribute dict  *)
(*   a graph object             a cell of heap; G and H are references     *)
(*   text                       a sequence of tokens: words, phrases and   *)
(*                              the terminators ".", "!", "?"              *)
(***************************************************************************)
EXTENDS Integers, Sequences, FiniteSets, TLC

VARIABLES
    pc,                      \* position in the pipeline
    transcripts,             \* the input documents
    top_n,                   \* configuration of build_concept_graph
    cooccurrence_threshold,  \* configuration of build_concept_graph
    global_concepts,         \* result of get_global_concepts
    concept_names,           \* list(concept_set) of build_concept_graph
    heap,                    \* graph objects by reference
    G_in,                    \* value of G when compute_levels was entered
    H,                       \* reference held by H in _break_cycles
    iterations,              \* iterations of the loop of _break_cycles
    dag,                     \* reference returned by _break_cycles
    pagerank_ok,             \* whether nx.pagerank returned normally
    scores,                  \* scores of compute_levels
    levels,                  \* levels of compute_levels, in insertion order
    ordered_concepts,        \* result of compute_levels
    level_groups             \* result of get_level_groups

vars == <<pc, transcripts, top_n, cooccurrence_threshold, global_concepts,
          concept_names, heap,
          G_in, H, iterations, dag, pagerank_ok, scores, levels,
          ordered_concepts, level_groups>>

(***************************************************************************)
(* Bounds of the model.                                                    *)
(***************************************************************************)
MaxEdges == 3

MaxAggDocs == 5

MaxDocs == 2

MaxTopN == 3

NodePool == <<"A", "B", "C">>

\* Edge attribute dicts of the input graphs: weight unset, or set.
EmptyDict == [k \in {} |-> 0]

EdgeDataPool == {EmptyDict, [weight |-> 1], [weight |-> 5]}

(***************************************************************************)
(* Generic helpers.                                                        *)
(***************************************************************************)
Range(s) == {s[i] : i \in DOMAIN s}

Get(d, key, default) == IF key \in DOMAIN d THEN d[key] ELSE default

RECURSIVE SumSeq(_)
SumSeq(s) == IF s = <<>> THEN 0 ELSE s[1] + SumSeq(Tail(s))

RECURSIVE Concat(_)
Concat(ss) == IF ss = <<>> THEN <<>> ELSE ss[1] \o Concat(Tail(ss))

MapSeq(s, Op(_)) == [i \in 1..Len(s) |-> Op(s[i])]

Max(S) == CHOOSE x \in S : \A y \in S : y <= x

\* Sequences without repetition, of length at most n, over the set S.
RECURSIVE DistinctSeqs(_, _)
DistinctSeqs(S, n) ==
    IF n = 0 THEN {<<>>}
    ELSE LET shorter == DistinctSeqs(S, n - 1)
             longest == {t \in shorter : Len(t) = n - 1}
         IN shorter \cup UNION {{Append(t, x) : x \in S \ Range(t)} : t \in longest}

(***************************************************************************)
(* concept_extractor.get_global_concepts                                   *)
(*                                                                         *)
(* A Counter is [keys, val]: the keys in insertion order and their counts. *)
(***************************************************************************)
EmptyCounter == [keys |-> <<>>, val |-> EmptyDict]

\* counter[key] += n
CounterAdd(c, key, n) ==
    IF key \in Range(c.keys)
    THEN [c EXCEPT !.val[key] = @ + n]
    ELSE [keys |-> Append(c.keys, key),
          val |-> [k \in Range(c.keys) \cup {key} |->
                      IF k = key THEN n ELSE c.val[k]]]

\* Mutant: the spread counts every listing, seen in this video or not.
RECURSIVE AggregateVideoNoSeen(_, _, _, _)
AggregateVideoNoSeen(items, global_counter, video_counter, seen_in_video) ==
    IF items = <<>>
    THEN [global_counter |-> global_counter, video_counter |-> video_counter]
    ELSE AggregateVideoNoSeen(Tail(items),
                              CounterAdd(global_counter, items[1][1], items[1][2]),
                              CounterAdd(video_counter, items[1][1], 1),
                              seen_in_video)

\* Lines 298-303: the observations of one video.
RECURSIVE AggregateVideo(_, _, _, _)
AggregateVideo(items, global_counter, video_counter, seen_in_video) ==
    IF items = <<>>
    THEN [global_counter |-> global_counter, video_counter |-> video_counter]
    ELSE LET concept == items[1][1]
             freq == items[1][2]
         IN AggregateVideo(Tail(items),
                           CounterAdd(global_counter, concept, freq),
                           IF concept \in seen_in_video THEN video_counter
                           ELSE CounterAdd(video_counter, concept, 1),
                           seen_in_video \cup {concept})

\* Lines 297-303: all videos, in order.
RECURSIVE AggregateAll(_, _, _)
AggregateAll(ts, global_counter, video_counter) ==
    IF ts = <<>>
    THEN [global_counter |-> global_counter, video_counter |-> video_counter]
    ELSE LET r == AggregateVideo(Get(ts[1], "concepts", <<>>),
                                 global_counter, video_counter, {})
         IN AggregateAll(Tail(ts), r.global_counter, r.video_counter)

\* Mutant: sorted ascending and then reversed, which turns ties round.
RECURSIVE SortedReversedAscending(_)
SortedReversedAscending(items) ==
    IF items = <<>> THEN <<>>
    ELSE LET rest == SortedReversedAscending(SubSeq(items, 1, Len(items) - 1))
             x == items[Len(items)]
             k == Cardinality({i \in DOMAIN rest : rest[i][2] > x[2]})
         IN SubSeq(rest, 1, k) \o <<x>> \o SubSeq(rest, k + 1, Len(rest))

\* sorted(items, key=lambda x: x[1], reverse=True): stable, so an item goes
\* behind every item whose score is not less than its own.
RECURSIVE SortedByScoreDescending(_)
SortedByScoreDescending(items) ==
    IF items = <<>> THEN <<>>
    ELSE LET rest == SortedByScoreDescending(SubSeq(items, 1, Len(items) - 1))
             x == items[Len(items)]
             k == Cardinality({i \in DOMAIN rest : rest[i][2] >= x[2]})
         IN SubSeq(rest, 1, k) \o <<x>> \o SubSeq(rest, k + 1, Len(rest))

\* Mutant: a cut that always keeps the first entry.
TruncateAtLeastOne(s, n) == SubSeq(s, 1, IF 0 < n /\ n < Len(s) THEN n ELSE Len(s))

\* ranked[:top_n] for top_n >= 0.
Truncate(s, n) == SubSeq(s, 1, IF n < Len(s) THEN n ELSE Len(s))

\* Mutant: the entries carry the total frequency, not the importance.
get_global_concepts_raw(ts, n) ==
    LET r == AggregateAll(ts, EmptyCounter, EmptyCounter)
        importance == [i \in DOMAIN r.global_counter.keys |->
                          LET concept == r.global_counter.keys[i]
                              freq == r.global_counter.val[concept]
                              spread == Get(r.video_counter.val, concept, 1)
                          IN <<concept, freq * spread>>]
        ranked == Truncate(SortedByScoreDescending(importance), n)
    IN [i \in DOMAIN ranked |->
          <<ranked[i][1], r.global_counter.val[ranked[i][1]],
            Get(r.video_counter.val, ranked[i][1], 1)>>]

get_global_concepts(ts, n) ==
    LET r == AggregateAll(ts, EmptyCounter, EmptyCounter)
        importance == [i \in DOMAIN r.global_counter.keys |->
                          LET concept == r.global_counter.keys[i]
                              freq == r.global_counter.val[concept]
                              spread == Get(r.video_counter.val, concept, 1)
                          IN <<concept, freq * spread>>]
        ranked == Truncate(SortedByScoreDescending(importance), n)
    IN [i \in DOMAIN ranked |->
          <<ranked[i][1], ranked[i][2], Get(r.video_counter.val, ranked[i][1], 1)>>]

(***************************************************************************)
(* nx.DiGraph: the operations of networkx the code calls.                  *)
(***************************************************************************)
EmptyGraph == [nodes |-> <<>>, attr |-> EmptyDict, edges |-> <<>>]

NodeSet(g) == Range(g.nodes)

EdgeSet(g) == {<<g.edges[i].u, g.edges[i].v>> : i \in DOMAIN g.edges}

has_edge(g, u, v) == <<u, v>> \in EdgeSet(g)

\* G.edges[u, v]: the attribute dict of an edge of g.
EdgeData(g, u, v) ==
    LET i == CHOOSE j \in DOMAIN g.edges : g.edges[j].u = u /\ g.edges[j].v = v
    IN g.edges[i].data

\* G.add_node(n, **attrs): a new node is appended, a known one updated.
add_node(g, n, attrs) ==
    [g EXCEPT !.nodes = IF n \in NodeSet(g) THEN @ ELSE Append(@, n),
              !.attr = [m \in NodeSet(g) \cup {n} |->
                           IF m = n THEN attrs ELSE g.attr[m]]]

\* G.add_edge(u, v, **data): missing endpoints become nodes; an edge already
\* there keeps its place and takes the new attributes.
add_edge(g, u, v, data) ==
    LET g1 == IF u \in NodeSet(g) THEN g ELSE add_node(g, u, EmptyDict)
        g2 == IF v \in NodeSet(g1) THEN g1 ELSE add_node(g1, v, EmptyDict)
    IN IF has_edge(g2, u, v)
       THEN [g2 EXCEPT !.edges = [i \in DOMAIN @ |->
                IF @[i].u = u /\ @[i].v = v
                THEN [@[i] EXCEPT !.data =
                        [k \in DOMAIN @ \cup DOMAIN data |->
                            IF k \in DOMAIN data THEN data[k] ELSE @[k]]]
                ELSE @[i]]]
       ELSE [g2 EXCEPT !.edges = Append(@, [u |-> u, v |-> v, data |-> data])]

\* H.remove_edge(u, v).
remove_edge(g, u, v) ==
    [g EXCEPT !.edges = SelectSeq(@, LAMBDA e : ~(e.u = u /\ e.v = v))]

\* G.neighbors(u) / G.successors(u): heads of u's out-edges, in insertion order.
successors(g, u) ==
    LET out == SelectSeq(g.edges, LAMBDA e : e.u = u)
    IN [i \in 1..Len(out) |-> out[i].v]

\* G.predecessors(v).
predecessors(g, v) ==
    LET inc == SelectSeq(g.edges, LAMBDA e : e.v = v)
    IN [i \in 1..Len(inc) |-> inc[i].u]

\* The value G.copy() builds: the nodes in order, then the edges node by node
\* in adjacency order, each with a copy of its attribute dict.
CopiedValue(g) ==
    [g EXCEPT !.edges =
        Concat([i \in 1..Len(g.nodes) |->
                  SelectSeq(g.edges, LAMBDA e : e.u = g.nodes[i])])]

\* nx.find_cycle(H): depth-first search from each node in node order, taking
\* the out-edges in adjacency order; the first edge whose head is on the
\* current path closes the cycle, which is returned as the list of edges from
\* that head round to it.
PathCycle(path, v) ==
    LET k == CHOOSE j \in 1..Len(path) : path[j] = v
        n == Len(path)
    IN [i \in 1..(n - k + 1) |->
          IF k + i - 1 < n THEN <<path[k + i - 1], path[k + i]>>
          ELSE <<path[n], v>>]

RECURSIVE DfsVisit(_, _, _, _)
DfsVisit(g, path, seen, i) ==
    LET nb == successors(g, path[Len(path)])
    IN IF i > Len(nb)
       THEN [found |-> FALSE, cycle |-> <<>>, seen |-> seen]
       ELSE IF nb[i] \in Range(path)
       THEN [found |-> TRUE, cycle |-> PathCycle(path, nb[i]), seen |-> seen]
       ELSE IF nb[i] \in seen
       THEN DfsVisit(g, path, seen, i + 1)
       ELSE LET r == DfsVisit(g, Append(path, nb[i]), seen \cup {nb[i]}, 1)
            IN IF r.found THEN r ELSE DfsVisit(g, path, r.seen, i + 1)

RECURSIVE FindCycleFrom(_, _, _)
FindCycleFrom(g, idx, explored) ==
    IF idx > Len(g.nodes)
    THEN [found |-> FALSE, cycle |-> <<>>]
    ELSE IF g.nodes[idx] \in explored
    THEN FindCycleFrom(g, idx + 1, explored)
    ELSE LET r == DfsVisit(g, <<g.nodes[idx]>>, explored \cup {g.nodes[idx]}, 1)
         IN IF r.found THEN [found |-> TRUE, cycle |-> r.cycle]
            ELSE FindCycleFrom(g, idx + 1, r.seen)

\* Mutant: the search starts from the first node only.
find_cycle_first_source(g) ==
    IF g.nodes = <<>> THEN [found |-> FALSE, cycle |-> <<>>]
    ELSE LET r == DfsVisit(g, <<g.nodes[1]>>, {g.nodes[1]}, 1)
         IN [found |-> r.found, cycle |-> r.cycle]

find_cycle(g) == FindCycleFrom(g, 1, {})

(***************************************************************************)
(* concept_graph: text.                                                    *)
(*                                                                         *)
(* A text is a sequence of tokens: a word, a phrase of a causal pattern    *)
(* (its words taken together), or one of the terminators.  ProperSubstring *)
(* lists the concepts that are substrings of a longer word.                *)
(***************************************************************************)
Terminators == {".", "!", "?"}

\* str.lower() on a token.
lower(w) ==
    CASE w = "Understanding" -> "understanding"
      [] w = "Recursion" -> "recursion"
      [] w = "Functions" -> "functions"
      [] w = "Loop" -> "loop"
      [] OTHER -> w

ProperSubstring == {<<"loop", "loops">>}

\* c in w, for a concept c and a word w.
InWord(c, w) == c = w \/ <<c, w>> \in ProperSubstring

\* c in sentence.
InSentence(c, sentence) == \E i \in DOMAIN sentence : InWord(c, sentence[i])

\* re.split(r'[.!?]+', text): the pieces between runs of terminators, then
\* the pieces that are not empty, lowercased.
RECURSIVE SplitPieces(_, _, _)
SplitPieces(text, piece, pieces) ==
    IF text = <<>> THEN Append(pieces, piece)
    ELSE IF text[1] \in Terminators
    THEN SplitPieces(Tail(text), <<>>, Append(pieces, piece))
    ELSE SplitPieces(Tail(text), Append(piece, text[1]), pieces)

split_sentences(text) ==
    MapSeq(SelectSeq(SplitPieces(text, <<>>, <<>>), LAMBDA piece : piece # <<>>),
           LAMBDA piece : MapSeq(piece, lower))

\* CAUSAL_PATTERNS: which placeholder the template names first, the
\* alternatives of its phrase, and its direction tag.
CAUSAL_PATTERNS ==
    << [lead |-> "c1", phrases |-> {"led to", "leads to", "lead to"}, direction |-> "forward"],
       [lead |-> "c1", phrases |-> {"caused", "causes", "causing"}, direction |-> "forward"],
       [lead |-> "c1", phrases |-> {"resulted in", "results in", "resulting in"}, direction |-> "forward"],
       [lead |-> "c1", phrases |-> {"enable", "enables", "enabling"}, direction |-> "forward"],
       [lead |-> "c1", phrases |-> {"allow", "allows", "allowing"}, direction |-> "forward"],
       [lead |-> "c1", phrases |-> {"introduce", "introduces", "introducing"}, direction |-> "forward"],
       [lead |-> "c1", phrases |-> {"is basis for", "is basis of", "is the basis for", "is the basis of"}, direction |-> "forward"],
       [lead |-> "c1", phrases |-> {"is foundation for", "is foundation of", "is a foundation for", "is a foundation of"}, direction |-> "forward"],
       [lead |-> "c1", phrases |-> {"is needed for", "is required for"}, direction |-> "forward"],
       [lead |-> "c2", phrases |-> {"depends on", "dependent on", "depending on"}, direction |-> "forward"],
       [lead |-> "c2", phrases |-> {"require", "requires", "requiring"}, direction |-> "forward"],
       [lead |-> "c2", phrases |-> {"relies on", "relying on"}, direction |-> "forward"],
       [lead |-> "c2", phrases |-> {"because of", "due to"}, direction |-> "forward"],
       [lead |-> "c2", phrases |-> {"built on", "builds on", "building on"}, direction |-> "forward"],
       [lead |-> "c2", phrases |-> {"based on"}, direction |-> "forward"],
       [lead |-> "c2", phrases |-> {"extend", "extends", "extending"}, direction |-> "forward"],
       [lead |-> "c2", phrases |-> {"use", "uses", "using"}, direction |-> "forward"] >>

\* re.search(r'\b{a}\b.*?\b(?:phrases)\b.*?\b{b}\b', sentence): the word a,
\* later one of the phrases, later the word b.
SearchTemplate(sentence, a, phrases, b) ==
    \E i, j, k \in DOMAIN sentence :
        /\ i < j
        /\ j < k
        /\ sentence[i] = a
        /\ sentence[j] \in phrases
        /\ sentence[k] = b

\* Lines 91-94 for one pattern.
PatternMatches(pattern, sentence, c1, c2) ==
    IF pattern.lead = "c1"
    THEN SearchTemplate(sentence, c1, pattern.phrases, c2)
    ELSE SearchTemplate(sentence, c2, pattern.phrases, c1)

\* present = [c for c in concept_names if c in sentence]
Present(concept_names_, sentence) ==
    SelectSeq(concept_names_, LAMBDA c : InSentence(c, sentence))

\* Mutant: every pair is taken in both orders.
PairsBothOrders(present) ==
    Concat([i \in DOMAIN present |->
              Concat([j \in DOMAIN present |->
                        IF i = j THEN <<>> ELSE <<<<present[i], present[j]>>>>])])

\* for i, c1 in enumerate(present): for c2 in present[i + 1:]
PairsInOrder(present) ==
    Concat([i \in DOMAIN present |->
              [j \in 1..(Len(present) - i) |-> <<present[i], present[i + j]>>]])

\* All sentences of the batch, in order (lines 52-56, 78-82).
RECURSIVE AllSentences(_)
AllSentences(ts) ==
    IF ts = <<>> THEN <<>>
    ELSE split_sentences(MapSeq(Get(ts[1], "cleaned_text", <<>>), lower))
             \o AllSentences(Tail(ts))

(***************************************************************************)
(* concept_graph._build_sentence_cooccurrence                              *)
(***************************************************************************)
\* Mutant: only the key (c1, c2) is counted.
RECURSIVE CountPairsOneWay(_, _)
CountPairsOneWay(pairs, cooccurrence) ==
    IF pairs = <<>> THEN cooccurrence
    ELSE CountPairsOneWay(Tail(pairs), CounterAdd(cooccurrence, pairs[1], 1))

RECURSIVE CountPairs(_, _)
CountPairs(pairs, cooccurrence) ==
    IF pairs = <<>> THEN cooccurrence
    ELSE CountPairs(Tail(pairs),
                    CounterAdd(CounterAdd(cooccurrence, pairs[1], 1),
                               <<pairs[1][2], pairs[1][1]>>, 1))

RECURSIVE CooccurrenceLoop(_, _, _)
CooccurrenceLoop(sentences, concept_names_, cooccurrence) ==
    IF sentences = <<>> THEN cooccurrence
    ELSE CooccurrenceLoop(Tail(sentences), concept_names_,
             CountPairs(PairsInOrder(Present(concept_names_, sentences[1])),
                        cooccurrence))

build_sentence_cooccurrence(ts, concept_names_) ==
    CooccurrenceLoop(AllSentences(ts), concept_names_, EmptyCounter)

(***************************************************************************)
(* concept_graph._find_causal_edges                                        *)
(***************************************************************************)
\* Mutant: no break, every pattern that matches adds a vote.
VotePairEveryPattern(sentence, pair, causal_edges) ==
    LET hits == {k \in DOMAIN CAUSAL_PATTERNS :
                    PatternMatches(CAUSAL_PATTERNS[k], sentence, pair[1], pair[2])}
    IN IF hits = {} THEN causal_edges
       ELSE CounterAdd(causal_edges, pair, Cardinality(hits))

\* Mutant: a match of a template that names c2 first is recorded as (c2, c1).
VotePairDependentFirst(sentence, pair, causal_edges) ==
    LET hits == {k \in DOMAIN CAUSAL_PATTERNS :
                    PatternMatches(CAUSAL_PATTERNS[k], sentence, pair[1], pair[2])}
    IN IF hits = {} THEN causal_edges
       ELSE LET first == CHOOSE k \in hits : \A m \in hits : k <= m
            IN IF CAUSAL_PATTERNS[first].lead = "c1"
               THEN CounterAdd(causal_edges, pair, 1)
               ELSE CounterAdd(causal_edges, <<pair[2], pair[1]>>, 1)

\* Lines 90-99 for one pair: the first pattern that matches decides.
VotePair(sentence, pair, causal_edges) ==
    LET hits == {k \in DOMAIN CAUSAL_PATTERNS :
                    PatternMatches(CAUSAL_PATTERNS[k], sentence, pair[1], pair[2])}
    IN IF hits = {} THEN causal_edges
       ELSE LET first == CHOOSE k \in hits : \A m \in hits : k <= m
            IN IF CAUSAL_PATTERNS[first].direction = "forward"
               THEN CounterAdd(causal_edges, pair, 1)
               ELSE CounterAdd(causal_edges, <<pair[2], pair[1]>>, 1)

RECURSIVE VotePairs(_, _, _)
VotePairs(sentence, pairs, causal_edges) ==
    IF pairs = <<>> THEN causal_edges
    ELSE VotePairs(sentence, Tail(pairs), VotePair(sentence, pairs[1], causal_edges))

RECURSIVE CausalLoop(_, _, _)
CausalLoop(sentences, concept_names_, causal_edges) ==
    IF sentences = <<>> THEN causal_edges
    ELSE LET present == Present(concept_names_, sentences[1])
         IN CausalLoop(Tail(sentences), concept_names_,
                IF Len(present) < 2 THEN causal_edges
                ELSE VotePairs(sentences[1], PairsInOrder(present), causal_edges))

find_causal_edges(ts, concept_names_) ==
    CausalLoop(AllSentences(ts), concept_names_, EmptyCounter)

(***************************************************************************)
(* concept_graph._get_temporal_order                                       *)
(***************************************************************************)
\* Mutant: a later document that lists the concept overwrites the index.
RECURSIVE LastAppearance(_, _, _)
LastAppearance(ts, video_idx, first_appearance) ==
    IF ts = <<>> THEN first_appearance
    ELSE LET listed == {Get(ts[1], "concepts", <<>>)[i][1] :
                           i \in DOMAIN Get(ts[1], "concepts", <<>>)}
         IN LastAppearance(Tail(ts), video_idx + 1,
                [c \in DOMAIN first_appearance \cup listed |->
                    IF c \in listed THEN video_idx ELSE first_appearance[c]])

RECURSIVE FirstAppearance(_, _, _)
FirstAppearance(ts, video_idx, first_appearance) ==
    IF ts = <<>> THEN first_appearance
    ELSE LET listed == {Get(ts[1], "concepts", <<>>)[i][1] :
                           i \in DOMAIN Get(ts[1], "concepts", <<>>)}
         IN FirstAppearance(Tail(ts), video_idx + 1,
                [c \in DOMAIN first_appearance \cup listed |->
                    IF c \in DOMAIN first_appearance THEN first_appearance[c]
                    ELSE video_idx])

get_temporal_order(ts) == FirstAppearance(ts, 0, EmptyDict)

(***************************************************************************)
(* concept_graph.build_concept_graph                                       *)
(***************************************************************************)
\* Lines 151-157.
RECURSIVE AddNodes(_, _, _)
AddNodes(g, global_concepts_, temporal_order) ==
    IF global_concepts_ = <<>> THEN g
    ELSE AddNodes(add_node(g, global_concepts_[1][1],
                           [frequency |-> global_concepts_[1][2],
                            video_count |-> global_concepts_[1][3],
                            first_video |-> Get(temporal_order,
                                                global_concepts_[1][1], 0)]),
                  Tail(global_concepts_), temporal_order)

\* Lines 160-162.
RECURSIVE AddCausalEdges(_, _, _, _)
AddCausalEdges(g, keys, causal_edges, concept_set) ==
    IF keys = <<>> THEN g
    ELSE LET c1 == keys[1][1]
             c2 == keys[1][2]
             count == causal_edges.val[keys[1]]
         IN AddCausalEdges(
                IF c1 \in concept_set /\ c2 \in concept_set
                THEN add_edge(g, c1, c2, [weight |-> count * 3, source |-> "causal"])
                ELSE g,
                Tail(keys), causal_edges, concept_set)

\* Lines 177-186: the score that decides the direction.
FoundationalScore(c, temporal_order, concept_freq, concept_video_count) ==
    (Get(concept_video_count, c, 1) * 50) + Get(concept_freq, c, 0)
        - (Get(temporal_order, c, 999) * 10)

\* Mutant: pairs joined by a causal edge are not skipped.
CooccurrenceEdgeNoSkip(g, c1, c2, cooccurrence, threshold, score1, score2) ==
    LET cooc_score == Get(cooccurrence.val, <<c1, c2>>, 0)
    IN IF cooc_score < threshold THEN g
       ELSE IF score1 >= score2
       THEN add_edge(g, c1, c2, [weight |-> cooc_score, source |-> "cooccurrence"])
       ELSE add_edge(g, c2, c1, [weight |-> cooc_score, source |-> "cooccurrence"])

\* Mutant: a count equal to the threshold is skipped too.
CooccurrenceEdgeAboveThreshold(g, c1, c2, cooccurrence, threshold, score1, score2) ==
    LET cooc_score == Get(cooccurrence.val, <<c1, c2>>, 0)
    IN IF has_edge(g, c1, c2) \/ has_edge(g, c2, c1) THEN g
       ELSE IF cooc_score <= threshold THEN g
       ELSE IF score1 >= score2
       THEN add_edge(g, c1, c2, [weight |-> cooc_score, source |-> "cooccurrence"])
       ELSE add_edge(g, c2, c1, [weight |-> cooc_score, source |-> "cooccurrence"])

\* Mutant: on equal scores the second concept of the pair becomes the tail.
CooccurrenceEdgeTieToSecond(g, c1, c2, cooccurrence, threshold, score1, score2) ==
    LET cooc_score == Get(cooccurrence.val, <<c1, c2>>, 0)
    IN IF has_edge(g, c1, c2) \/ has_edge(g, c2, c1) THEN g
       ELSE IF cooc_score < threshold THEN g
       ELSE IF score1 > score2
       THEN add_edge(g, c1, c2, [weight |-> cooc_score, source |-> "cooccurrence"])
       ELSE add_edge(g, c2, c1, [weight |-> cooc_score, source |-> "cooccurrence"])

\* Lines 167-191 for one pair.
CooccurrenceEdge(g, c1, c2, cooccurrence, threshold, score1, score2) ==
    LET cooc_score == Get(cooccurrence.val, <<c1, c2>>, 0)
    IN IF has_edge(g, c1, c2) \/ has_edge(g, c2, c1) THEN g
       ELSE IF cooc_score < threshold THEN g
       ELSE IF score1 >= score2
       THEN add_edge(g, c1, c2, [weight |-> cooc_score, source |-> "cooccurrence"])
       ELSE add_edge(g, c2, c1, [weight |-> cooc_score, source |-> "cooccurrence"])

\* Lines 165-191.
RECURSIVE AddCooccurrenceEdges(_, _, _, _, _, _, _)
AddCooccurrenceEdges(g, pairs, cooccurrence, threshold, temporal_order, concept_freq, concept_video_count) ==
    IF pairs = <<>> THEN g
    ELSE AddCooccurrenceEdges(
             CooccurrenceEdge(g, pairs[1][1], pairs[1][2], cooccurrence, threshold,
                 FoundationalScore(pairs[1][1], temporal_order, concept_freq,
                                   concept_video_count),
                 FoundationalScore(pairs[1][2], temporal_order, concept_freq,
                                   concept_video_count)),
             Tail(pairs), cooccurrence, threshold, temporal_order, concept_freq,
             concept_video_count)

ConceptSet(global_concepts_) == {global_concepts_[i][1] : i \in DOMAIN global_concepts_}

\* The graph build_concept_graph returns when list(concept_set) enumerates
\* the concepts as concept_names_.
build_concept_graph(ts, n, threshold, concept_names_) ==
    LET global_concepts_ == get_global_concepts(ts, n)
        concept_set == ConceptSet(global_concepts_)
        concept_freq == [c \in concept_set |->
            global_concepts_[CHOOSE i \in DOMAIN global_concepts_ :
                                global_concepts_[i][1] = c][2]]
        concept_video_count == [c \in concept_set |->
            global_concepts_[CHOOSE i \in DOMAIN global_concepts_ :
                                global_concepts_[i][1] = c][3]]
        temporal_order == get_temporal_order(ts)
        cooccurrence == build_sentence_cooccurrence(ts, concept_names_)
        causal_edges == find_causal_edges(ts, concept_names_)
        g1 == AddNodes(EmptyGraph, global_concepts_, temporal_order)
        g2 == AddCausalEdges(g1, causal_edges.keys, causal_edges, concept_set)
    IN AddCooccurrenceEdges(g2, PairsInOrder(concept_names_), cooccurrence,
                            threshold, temporal_order, concept_freq,
                            concept_video_count)

\* Mutant: the list also holds a word that is no candidate concept.
EnumerationsWithStray(S) ==
    {t \in DistinctSeqs(S \cup {"understanding"}, Cardinality(S) + 1) :
        Range(t) = S \cup {"understanding"}}

\* list(concept_set): the order of a set of strings is that of their hashes,
\* which differ from one interpreter run to the next.
Enumerations(S) == {t \in DistinctSeqs(S, Cardinality(S)) : Len(t) = Cardinality(S)}

(***************************************************************************)
(* prerequisite_order._break_cycles                                        *)
(***************************************************************************)
\* Mutant: the weights are not read, every edge counts 1.
CycleWeightUnset(h, e) == 1

\* min(cycle, key=lambda e: H.edges[e[0], e[1]].get('weight', 1)): the first
\* edge of the cycle among those of least weight.
CycleWeight(h, e) == Get(EdgeData(h, e[1], e[2]), "weight", 1)

\* Mutant: the last edge of the cycle among those of least weight.
WeakestEdgeLast(h, cycle) ==
    LET i == CHOOSE j \in DOMAIN cycle :
                 /\ \A k \in DOMAIN cycle :
                        CycleWeight(h, cycle[j]) <= CycleWeight(h, cycle[k])
                 /\ \A k \in (j + 1)..Len(cycle) :
                        CycleWeight(h, cycle[k]) > CycleWeight(h, cycle[j])
    IN cycle[i]

\* Mutant: the lightest edge of the whole graph, on the cycle or not.
WeakestEdgeOfGraph(h, cycle) ==
    LET i == CHOOSE j \in DOMAIN h.edges :
                 /\ \A k \in DOMAIN h.edges :
                        Get(h.edges[j].data, "weight", 1) <= Get(h.edges[k].data, "weight", 1)
                 /\ \A k \in 1..(j - 1) :
                        Get(h.edges[k].data, "weight", 1) > Get(h.edges[j].data, "weight", 1)
    IN <<h.edges[i].u, h.edges[i].v>>

WeakestEdge(h, cycle) ==
    LET i == CHOOSE j \in DOMAIN cycle :
                 /\ \A k \in DOMAIN cycle :
                        CycleWeight(h, cycle[j]) <= CycleWeight(h, cycle[k])
                 /\ \A k \in 1..(j - 1) :
                        CycleWeight(h, cycle[k]) > CycleWeight(h, cycle[j])
    IN cycle[i]

\* Mutant: every edge of the cycle is removed.
RECURSIVE BreakWholeCycle(_, _)
BreakWholeCycle(h, cycle) ==
    IF cycle = <<>> THEN h
    ELSE BreakWholeCycle(remove_edge(h, cycle[1][1], cycle[1][2]), Tail(cycle))

\* One iteration of the loop that found `cycle`: lines 23-24.
BreakOneCycle(h, cycle) ==
    LET weakest_edge == WeakestEdge(h, cycle)
    IN remove_edge(h, weakest_edge[1], weakest_edge[2])

RECURSIVE BreakLoop(_)
BreakLoop(h) ==
    LET c == find_cycle(h)
    IN IF c.found THEN BreakLoop(BreakOneCycle(h, c.cycle)) ELSE h

\* The graph _break_cycles(G) returns.
break_cycles(g) == BreakLoop(CopiedValue(g))

\* Mutant: H = G, the same object.
GraphAlias(hp, ref) == [heap |-> hp, ref |-> ref]

\* H = G.copy(): a new object on the heap, and the reference to it.
GraphCopy(hp, ref) ==
    [heap |-> Append(hp, CopiedValue(hp[ref])), ref |-> Len(hp) + 1]

(***************************************************************************)
(* concept_graph.get_node_scores                                           *)
(*                                                                         *)
(* Scores are fixed-point numbers: Unit stands for 1.0.  nx.pagerank is    *)
(* the power iteration with damping 0.85 on the weight-normalised graph,   *)
(* dangling nodes spread uniformly, run for PowerIterations rounds.        *)
(***************************************************************************)
Unit == 1000 * 1000

PowerIterations == 2

OutWeight(g, u) ==
    SumSeq(MapSeq(SelectSeq(g.edges, LAMBDA e : e.u = u),
                  LAMBDA e : Get(e.data, "weight", 1)))

\* Mutant: the score held by the nodes without out-edges is dropped.
DanglingNone(g) == {}

Dangling(g) == {n \in NodeSet(g) : OutWeight(g, n) = 0}

PowerStep(g, x) ==
    LET N == Len(g.nodes)
        danglesum ==
            SumSeq(MapSeq(SelectSeq(g.nodes, LAMBDA n : n \in Dangling(g)),
                          LAMBDA n : x[n]))
        inflow(n) ==
            SumSeq(MapSeq(SelectSeq(g.edges,
                                    LAMBDA e : e.v = n /\ OutWeight(g, e.u) > 0),
                          LAMBDA e : (x[e.u] * Get(e.data, "weight", 1))
                                         \div OutWeight(g, e.u)))
    IN [n \in NodeSet(g) |->
          (85 * (inflow(n) + danglesum \div N) + 15 * (Unit \div N)) \div 100]

RECURSIVE PowerIterate(_, _, _)
PowerIterate(g, x, k) ==
    IF k = 0 THEN x ELSE PowerIterate(g, PowerStep(g, x), k - 1)

pagerank(g) ==
    PowerIterate(g, [n \in NodeSet(g) |-> Unit \div Len(g.nodes)], PowerIterations)

\* Mutant: no except branch, the scores are those of PageRank in every case.
get_node_scores_no_fallback(g, ok) ==
    IF Len(g.nodes) = 0 THEN EmptyDict ELSE pagerank(g)

\* ok: nx.pagerank returned; otherwise it raised and the except branch ran.
get_node_scores(g, ok) ==
    IF Len(g.nodes) = 0 THEN EmptyDict
    ELSE IF ok THEN pagerank(g)
    ELSE [n \in NodeSet(g) |-> Unit \div Len(g.nodes)]

(***************************************************************************)
(* prerequisite_order.compute_levels                                       *)
(***************************************************************************)
in_degree(g, v) == Len(SelectSeq(g.edges, LAMBDA e : e.v = v))

\* nx.topological_sort(dag): Kahn's algorithm by generations.  The nodes of
\* in-degree 0, in node order, form the first generation; a node joins the
\* next generation when the last of its in-edges has been relaxed.
RECURSIVE Relax(_, _, _)
Relax(children, indegree_map, zero_indegree) ==
    IF children = <<>>
    THEN [indegree_map |-> indegree_map, zero_indegree |-> zero_indegree]
    ELSE LET child == children[1]
             d == indegree_map[child] - 1
         IN Relax(Tail(children),
                  [indegree_map EXCEPT ![child] = d],
                  IF d = 0 THEN Append(zero_indegree, child) ELSE zero_indegree)

RECURSIVE Generations(_, _, _)
Generations(g, indegree_map, this_generation) ==
    IF this_generation = <<>> THEN <<>>
    ELSE LET children == Concat([i \in 1..Len(this_generation) |->
                                    successors(g, this_generation[i])])
             r == Relax(children, indegree_map, <<>>)
         IN this_generation \o Generations(g, r.indegree_map, r.zero_indegree)

\* Mutant: the nodes in insertion order, whatever the edges.
topological_sort_node_order(g) == g.nodes

topological_sort(g) ==
    Generations(g, [n \in NodeSet(g) |-> in_degree(g, n)],
                SelectSeq(g.nodes, LAMBDA n : in_degree(g, n) = 0))

\* nx.topological_sort raises NetworkXUnfeasible on a graph with a cycle.
Unfeasible(g) == Len(topological_sort(g)) < Len(g.nodes)

\* levels.get(p, 0) on the dict built so far (a sequence of <<node, level>>).
LevelGet(lv, p, default) ==
    IF \E i \in DOMAIN lv : lv[i][1] = p
    THEN lv[CHOOSE i \in DOMAIN lv : lv[i][1] = p][2]
    ELSE default

\* Mutant: the level of the highest predecessor, without the + 1.
NodeLevelNoIncrement(g, lv, node) ==
    LET preds == predecessors(g, node)
    IN IF preds = <<>> THEN 0
       ELSE Max({LevelGet(lv, preds[i], 0) : i \in DOMAIN preds})

\* Lines 51-56 for one node.
NodeLevel(g, lv, node) ==
    LET preds == predecessors(g, node)
    IN IF preds = <<>> THEN 0
       ELSE Max({LevelGet(lv, preds[i], 0) : i \in DOMAIN preds}) + 1

\* Mutant: the nodes that no edge touches are left out.
RECURSIVE AssignLevelsConnectedOnly(_, _, _)
AssignLevelsConnectedOnly(g, topo_order, lv) ==
    IF topo_order = <<>> THEN lv
    ELSE AssignLevelsConnectedOnly(g, Tail(topo_order),
             IF predecessors(g, topo_order[1]) = <<>> /\ successors(g, topo_order[1]) = <<>>
             THEN lv
             ELSE Append(lv, <<topo_order[1], NodeLevel(g, lv, topo_order[1])>>))

RECURSIVE AssignLevels(_, _, _)
AssignLevels(g, topo_order, lv) ==
    IF topo_order = <<>> THEN lv
    ELSE AssignLevels(g, Tail(topo_order),
                      Append(lv, <<topo_order[1], NodeLevel(g, lv, topo_order[1])>>))

\* Mutant: the key (level, score), which puts the lower score first.
KeyLeqScoreAscending(x, y) == x[1] < y[1] \/ (x[1] = y[1] /\ x[3] <= y[3])

\* The key of result.sort: (level, -score), compared lexicographically.
KeyLeq(x, y) == x[1] < y[1] \/ (x[1] = y[1] /\ -x[3] <= -y[3])

\* list.sort is stable: an entry goes behind every entry whose key is not
\* greater than its own.
RECURSIVE StableSort(_)
StableSort(s) ==
    IF s = <<>> THEN <<>>
    ELSE LET rest == StableSort(SubSeq(s, 1, Len(s) - 1))
             x == s[Len(s)]
             k == Cardinality({i \in DOMAIN rest : KeyLeq(rest[i], x)})
         IN SubSeq(rest, 1, k) \o <<x>> \o SubSeq(rest, k + 1, Len(rest))

\* Lines 58-65: the result list, from the levels dict and the scores.
BuildResult(lv, sc) ==
    StableSort([i \in DOMAIN lv |-> <<lv[i][2], lv[i][1], Get(sc, lv[i][1], 0)>>])

LevelsOf(d) == AssignLevels(d, topological_sort(d), <<>>)

\* compute_levels(G) as a function of G and of whether nx.pagerank returned.
compute_levels(g, ok) ==
    BuildResult(LevelsOf(break_cycles(g)), get_node_scores(g, ok))

(***************************************************************************)
(* prerequisite_order.get_level_groups                                     *)
(***************************************************************************)
\* Mutant: each entry is put at the front of its group.
RECURSIVE GroupLoopPrepend(_, _)
GroupLoopPrepend(ordered, groups) ==
    IF ordered = <<>> THEN groups
    ELSE LET level == ordered[1][1]
             item == <<ordered[1][2], ordered[1][3]>>
             g1 == IF level \in Range(groups.keys) THEN groups
                   ELSE [keys |-> Append(groups.keys, level),
                         val |-> [l \in DOMAIN groups.val \cup {level} |->
                                     IF l = level THEN <<>> ELSE groups.val[l]]]
         IN GroupLoopPrepend(Tail(ordered),
                             [g1 EXCEPT !.val[level] = <<item>> \o @])

\* groups: a dict from level to list, as [keys, val].
RECURSIVE GroupLoop(_, _)
GroupLoop(ordered, groups) ==
    IF ordered = <<>> THEN groups
    ELSE LET level == ordered[1][1]
             item == <<ordered[1][2], ordered[1][3]>>
             g1 == IF level \in Range(groups.keys) THEN groups
                   ELSE [keys |-> Append(groups.keys, level),
                         val |-> [l \in DOMAIN groups.val \cup {level} |->
                                     IF l = level THEN <<>> ELSE groups.val[l]]]
         IN GroupLoop(Tail(ordered),
                      [g1 EXCEPT !.val[level] = Append(@, item)])

get_level_groups(ordered) == GroupLoop(ordered, [keys |-> <<>>, val |-> EmptyDict])

(***************************************************************************)
(* compute_levels and get_level_groups, step by step.  G is heap[1].       *)
(***************************************************************************)
G == 1

NoGroups == [keys |-> <<>>, val |-> EmptyDict]

\* Line 42, entry of _break_cycles: H = G.copy() (line 14).
BreakCyclesCopy ==
    /\ pc = "built"
    /\ LET c == GraphCopy(heap, G)
       IN /\ heap' = c.heap
          /\ H' = c.ref
    /\ G_in' = heap[G]
    /\ iterations' = 0
    /\ pc' = "breaking"
    /\ UNCHANGED <<transcripts, top_n, cooccurrence_threshold, global_concepts,
                   concept_names,
                   dag, pagerank_ok, scores, levels, ordered_concepts,
                   level_groups>>

\* Lines 16-24: an iteration of the loop that finds a cycle.
BreakCyclesStep ==
    /\ pc = "breaking"
    /\ find_cycle(heap[H]).found
    /\ heap' = [heap EXCEPT ![H] = BreakOneCycle(@, find_cycle(@).cycle)]
    /\ iterations' = iterations + 1
    /\ UNCHANGED <<pc, transcripts, top_n, cooccurrence_threshold, global_concepts,
                   concept_names, G_in, H, dag, pagerank_ok, scores, levels,
                   ordered_concepts, level_groups>>

\* Lines 19-20 and 26: NetworkXNoCycle ends the loop; return H.
BreakCyclesReturn ==
    /\ pc = "breaking"
    /\ ~find_cycle(heap[H]).found
    /\ dag' = H
    /\ pc' = "scoring"
    /\ UNCHANGED <<transcripts, top_n, cooccurrence_threshold, global_concepts,
                   concept_names,
                   heap, G_in, H, iterations, pagerank_ok, scores, levels,
                   ordered_concepts, level_groups>>

\* Line 45: scores = get_node_scores(G).
ComputeLevelsScores ==
    /\ pc = "scoring"
    /\ \E ok \in (IF Len(heap[G].nodes) = 0 THEN {TRUE} ELSE BOOLEAN) :
          /\ pagerank_ok' = ok
          /\ scores' = get_node_scores(heap[G], ok)
    /\ pc' = "leveling"
    /\ UNCHANGED <<transcripts, top_n, cooccurrence_threshold, global_concepts,
                   concept_names,
                   heap, G_in, H, iterations, dag, levels, ordered_concepts,
                   level_groups>>

\* Lines 47-67: the levels in topological order, the sorted result.
ComputeLevelsReturn ==
    /\ pc = "leveling"
    /\ IF Unfeasible(heap[dag])
       THEN /\ pc' = "raised"
            /\ UNCHANGED <<levels, ordered_concepts>>
       ELSE /\ levels' = LevelsOf(heap[dag])
            /\ ordered_concepts' = BuildResult(levels', scores)
            /\ pc' = "levelled"
    /\ UNCHANGED <<transcripts, top_n, cooccurrence_threshold, global_concepts,
                   concept_names,
                   heap, G_in, H, iterations, dag, pagerank_ok, scores,
                   level_groups>>

\* main.py line 171: level_groups = get_level_groups(ordered_concepts).
GetLevelGroups ==
    /\ pc = "levelled"
    /\ level_groups' = get_level_groups(ordered_concepts)
    /\ pc' = "done"
    /\ UNCHANGED <<transcripts, top_n, cooccurrence_threshold, global_concepts,
                   concept_names,
                   heap, G_in, H, iterations, dag, pagerank_ok, scores, levels,
                   ordered_concepts>>

(***************************************************************************)
(* SpecGraph: compute_levels on any input graph over NodePool with at most *)
(* MaxEdges edges, self-loops included, each node's out-edges in any       *)
(* order.  compute_levels reads the edges of G by tail or by head only, so *)
(* the inputs list them tail by tail.                                      *)
(***************************************************************************)
\* The graph over `nodes` whose node nodes[i] has the successors a[i], in
\* that order, the i-th edge carrying the attribute dict ds[i].
InputGraph(nodes, a, ds) ==
    LET pairs == Concat([i \in DOMAIN nodes |->
                           [j \in DOMAIN a[i] |-> <<nodes[i], a[i][j]>>]])
    IN [nodes |-> nodes,
        attr |-> [n \in Range(nodes) |-> EmptyDict],
        edges |-> [i \in DOMAIN pairs |->
                      [u |-> pairs[i][1], v |-> pairs[i][2], data |-> ds[i]]]]

EdgeCount(a) == SumSeq([i \in DOMAIN a |-> Len(a[i])])

InitGraph ==
    /\ pc = "built"
    /\ \E k \in 0..Len(NodePool) :
          LET nodes == SubSeq(NodePool, 1, k)
          IN \E a \in [1..k -> DistinctSeqs(Range(nodes), k)] :
                /\ EdgeCount(a) <= MaxEdges
                /\ \E ds \in [1..EdgeCount(a) -> EdgeDataPool] :
                      heap = <<InputGraph(nodes, a, ds)>>
    /\ transcripts = <<>>
    /\ top_n = 0
    /\ cooccurrence_threshold = 0
    /\ global_concepts = <<>>
    /\ concept_names = <<>>
    /\ G_in = EmptyGraph
    /\ H = 0
    /\ iterations = 0
    /\ dag = 0
    /\ pagerank_ok = TRUE
    /\ scores = EmptyDict
    /\ levels = <<>>
    /\ ordered_concepts = <<>>
    /\ level_groups = NoGroups

NextGraph ==
    \/ BreakCyclesCopy
    \/ BreakCyclesStep
    \/ BreakCyclesReturn
    \/ ComputeLevelsScores
    \/ ComputeLevelsReturn
    \/ GetLevelGroups

SpecGraph == InitGraph /\ [][NextGraph]_vars

(***************************************************************************)
(* Spec: the pipeline of main.py on up to MaxDocs documents, each with one *)
(* of the concept lists of DocConcepts and one of the texts of DocTexts,   *)
(* under one of the configurations of Configs.                             *)
(***************************************************************************)
DocConcepts ==
    {<<>>,
     <<<<"functions", 2>>, <<"recursion", 1>>, <<"loop", 1>>>>,
     <<<<"loop", 3>>, <<"recursion", 1>>>>}

DocTexts ==
    {<<>>,
     <<"Understanding", "recursion", "requires", "understanding", "functions", ".">>,
     <<"recursion", "leads to", "loop", ".", "loops", "and", "functions", "!">>,
     <<"Recursion", "leads to", "functions", "?", "!", "loop">>}

\* The document of scenario 1: two concepts that share no sentence.
Scenario1Document ==
    [concepts |-> <<<<"loop", 5>>, <<"variable", 8>>>>,
     cleaned_text |-> <<"loop", "and", "loops", ".", "variable", "!">>]

\* A document with a sentence that two templates of the catalogue match.
DoubleSignalDocument ==
    [concepts |-> <<<<"loop", 3>>, <<"recursion", 1>>>>,
     cleaned_text |-> <<"recursion", "leads to", "loop", "because of", "recursion", ".">>]

ScenarioDocuments == {Scenario1Document, DoubleSignalDocument}

Configs ==
    {[top_n |-> 3, cooccurrence_threshold |-> 1],
     [top_n |-> 3, cooccurrence_threshold |-> 2],
     [top_n |-> 2, cooccurrence_threshold |-> 1],
     [top_n |-> 2, cooccurrence_threshold |-> 2],
     [top_n |-> 0, cooccurrence_threshold |-> 2]}

\* main.py line 163: G = build_concept_graph(transcripts, ...).
BuildConceptGraph ==
    /\ pc = "start"
    /\ global_concepts' = get_global_concepts(transcripts, top_n)
    /\ \E names \in Enumerations(ConceptSet(global_concepts')) :
          /\ concept_names' = names
          /\ heap' = <<build_concept_graph(transcripts, top_n,
                                           cooccurrence_threshold, names)>>
    /\ pc' = "built"
    /\ UNCHANGED <<transcripts, top_n, cooccurrence_threshold, G_in, H,
                   iterations, dag, pagerank_ok, scores, levels,
                   ordered_concepts, level_groups>>

Init ==
    /\ pc = "start"
    /\ \/ \E n \in 0..MaxDocs :
             \E lists \in [1..n -> DocConcepts] :
                 \E texts \in [1..n -> DocTexts] :
                     transcripts = [i \in 1..n |->
                                       [concepts |-> lists[i], cleaned_text |-> texts[i]]]
       \/ \E n \in 1..MaxDocs : transcripts \in [1..n -> ScenarioDocuments]
    /\ \E config \in Configs :
          /\ top_n = config.top_n
          /\ cooccurrence_threshold = config.cooccurrence_threshold
    /\ global_concepts = <<>>
    /\ concept_names = <<>>
    /\ heap = <<EmptyGraph>>
    /\ G_in = EmptyGraph
    /\ H = 0
    /\ iterations = 0
    /\ dag = 0
    /\ pagerank_ok = TRUE
    /\ scores = EmptyDict
    /\ levels = <<>>
    /\ ordered_concepts = <<>>
    /\ level_groups = NoGroups

Next ==
    \/ BuildConceptGraph
    \/ BreakCyclesCopy
    \/ BreakCyclesStep
    \/ BreakCyclesReturn
    \/ ComputeLevelsScores
    \/ ComputeLevelsReturn
    \/ GetLevelGroups

Spec == Init /\ [][Next]_vars

(***************************************************************************)
(* Properties of compute_levels and _break_cycles.                         *)
(***************************************************************************)
\* Nodes reachable from the set S along the edges E (S included).
RECURSIVE Closure(_, _)
Closure(E, S) ==
    LET T == S \cup {e[2] : e \in {f \in E : f[1] \in S}}
    IN IF T = S THEN S ELSE Closure(E, T)

Descendants(E, u) == Closure(E, {e[2] : e \in {f \in E : f[1] = u}})

HasDirectedCycle(g) == \E u \in NodeSet(g) : u \in Descendants(EdgeSet(g), u)

\* The levels the returned list gives to a concept.
LevelsIn(ordered, c) == {ordered[i][1] : i \in {j \in DOMAIN ordered : ordered[j][2] = c}}

Returned == pc \in {"levelled", "done"}

AfterBreakCycles == pc \in {"scoring", "leveling", "levelled", "done"}

\* C1: level monotonicity.  Once compute_levels has returned, every edge
\* A -> B of the acyclic graph _break_cycles produced has level(A) < level(B)
\* in the returned list, where every node has exactly one level.
C1_LevelMonotonicity ==
    Returned =>
        /\ \A n \in NodeSet(heap[dag]) : Cardinality(LevelsIn(ordered_concepts, n)) = 1
        /\ \A e \in EdgeSet(heap[dag]) :
              \A la \in LevelsIn(ordered_concepts, e[1]) :
                  \A lb \in LevelsIn(ordered_concepts, e[2]) : la < lb

\* A run that removed an edge of a cycle and levelled a chain of two
\* surviving edges.
C1_Witness ==
    /\ Returned
    /\ iterations > 0
    /\ \E e, f \in EdgeSet(heap[dag]) : e[2] = f[1]

\* C2: acyclicity.  The graph _break_cycles returns has no directed cycle,
\* whatever the input graph.
C2_Acyclicity == AfterBreakCycles => ~HasDirectedCycle(heap[dag])

\* The input is one cycle through all three nodes, and the loop has ended.
C2_Witness ==
    /\ pc = "scoring"
    /\ Len(G_in.nodes) = 3
    /\ Len(G_in.edges) = 3
    /\ \A n \in NodeSet(G_in) : Descendants(EdgeSet(G_in), n) = NodeSet(G_in)

\* C3: termination of the loop of _break_cycles.  Each iteration that found
\* a cycle removed exactly one edge, so the iterations made and the edges
\* left add up to the edges of the input: the loop makes at most |E|
\* iterations.
C3_LoopBound ==
    pc = "breaking" =>
        /\ iterations + Len(heap[H].edges) = Len(G_in.edges)
        /\ iterations <= Len(G_in.edges)
        /\ (iterations = Len(G_in.edges) => ~find_cycle(heap[H]).found)

\* The worst case: every edge of a non-empty input has been removed.
C3_Witness ==
    /\ pc = "scoring"
    /\ Len(G_in.edges) = MaxEdges
    /\ iterations = Len(G_in.edges)

\* C4: frame.  From the entry of compute_levels on, G has the nodes, edges
\* and weights it had at the entry, and the scores used for the result are
\* those of that graph.
C4_OriginalUntouched ==
    /\ pc # "built" => heap[G] = G_in
    /\ pc \in {"leveling", "levelled", "done"} =>
          scores = get_node_scores(G_in, pagerank_ok)
    /\ Returned =>
          \A i \in DOMAIN ordered_concepts :
              ordered_concepts[i][3] =
                  get_node_scores(G_in, pagerank_ok)[ordered_concepts[i][2]]

\* Edges were removed from the copy, and the acyclic copy would score
\* differently from G.
C4_Witness ==
    /\ Returned
    /\ iterations > 0
    /\ EdgeSet(heap[dag]) # EdgeSet(heap[G])
    /\ get_node_scores(heap[dag], pagerank_ok) # scores

(***************************************************************************)
(* SpecAgg: get_global_concepts on up to MaxAggDocs videos, each with one  *)
(* of the concept lists of ConceptListPool, and top_n up to MaxTopN.       *)
(***************************************************************************)
ConceptListPool ==
    {<<>>,
     <<<<"loop", 1>>>>,
     <<<<"variable", 4>>, <<"loop", 1>>>>,
     <<<<"loop", 1>>, <<"loop", 1>>>>,
     <<<<"recursion", 2>>, <<"variable", 1>>>>,
     <<<<"variable", 1>>, <<"recursion", 2>>>>}

GetGlobalConcepts ==
    /\ pc = "start"
    /\ global_concepts' = get_global_concepts(transcripts, top_n)
    /\ pc' = "aggregated"
    /\ UNCHANGED <<transcripts, top_n, cooccurrence_threshold, concept_names,
                   heap, G_in, H, iterations, dag, pagerank_ok, scores, levels,
                   ordered_concepts, level_groups>>

InitAgg ==
    /\ pc = "start"
    /\ \E n \in 0..MaxAggDocs :
          \E lists \in [1..n -> ConceptListPool] :
              transcripts = [i \in 1..n |->
                                [concepts |-> lists[i], cleaned_text |-> <<>>]]
    /\ top_n \in 0..MaxTopN
    /\ cooccurrence_threshold = 0
    /\ global_concepts = <<>>
    /\ concept_names = <<>>
    /\ heap = <<EmptyGraph>>
    /\ G_in = EmptyGraph
    /\ H = 0
    /\ iterations = 0
    /\ dag = 0
    /\ pagerank_ok = TRUE
    /\ scores = EmptyDict
    /\ levels = <<>>
    /\ ordered_concepts = <<>>
    /\ level_groups = NoGroups

NextAgg == GetGlobalConcepts

SpecAgg == InitAgg /\ [][NextAgg]_vars

(***************************************************************************)
(* Properties of get_global_concepts.                                      *)
(***************************************************************************)
\* The observations of video i, and the places <<i, j>> where c is listed.
Listing(ts, i) == Get(ts[i], "concepts", <<>>)

AllPlaces(ts) == UNION {{i} \X DOMAIN Listing(ts, i) : i \in DOMAIN ts}

Places(ts, c) == {p \in AllPlaces(ts) : Listing(ts, p[1])[p[2]][1] = c}

RECURSIVE SumOver(_, _, _)
SumOver(ts, c, places) ==
    IF places = {} THEN 0
    ELSE LET p == CHOOSE q \in places : TRUE
         IN Listing(ts, p[1])[p[2]][2] + SumOver(ts, c, places \ {p})

TotalFrequency(ts, c) == SumOver(ts, c, Places(ts, c))

DocumentSpread(ts, c) == Cardinality({p[1] : p \in Places(ts, c)})

Importance(ts, c) == TotalFrequency(ts, c) * DocumentSpread(ts, c)

Listed(ts) == {Listing(ts, p[1])[p[2]][1] : p \in AllPlaces(ts)}

\* <<i, j>> comes before <<k, l>> in reading order.
Earlier(p, q) == p[1] < q[1] \/ (p[1] = q[1] /\ p[2] < q[2])

FirstSeen(ts, c) == CHOOSE p \in Places(ts, c) : \A q \in Places(ts, c) : p = q \/ Earlier(p, q)

IndexOf(seq, c) == CHOOSE i \in DOMAIN seq : seq[i][1] = c

\* What C9 says of each returned entry <<concept, importance, spread>>.
EntryAsAggregated(ts, entry) ==
    /\ entry[3] = DocumentSpread(ts, entry[1])
    /\ entry[2] = TotalFrequency(ts, entry[1]) * entry[3]
    /\ 1 <= entry[3]
    /\ entry[3] <= Len(ts)

\* Scenario 4: c is listed once in each of 5 documents, d with frequency 4
\* in one document.
Scenario4(ts, c, d) ==
    /\ Len(ts) = 5
    /\ DocumentSpread(ts, c) = 5
    /\ TotalFrequency(ts, c) = 5
    /\ DocumentSpread(ts, d) = 1
    /\ TotalFrequency(ts, d) = 4

\* C9 as stated: every returned concept carries importance = total frequency
\* times document spread, the spread being the number of documents listing
\* it (once per document) and lying between 1 and the number of documents;
\* and in scenario 4 the concept listed once in each of 5 documents has
\* importance 5 and comes before the one of importance 4.
C9_AsStated ==
    pc = "aggregated" =>
        /\ \A i \in DOMAIN global_concepts :
              EntryAsAggregated(transcripts, global_concepts[i])
        /\ \A i, j \in DOMAIN global_concepts :
              Scenario4(transcripts, global_concepts[i][1], global_concepts[j][1])
                 => /\ global_concepts[i][2] = 5
                    /\ global_concepts[j][2] = 4
                    /\ i < j

\* C9 amended: the same, with importance 25 = 5 * 5 for the concept listed
\* once in each of 5 documents.
C9_ImportanceAndSpread ==
    pc = "aggregated" =>
        /\ \A i \in DOMAIN global_concepts :
              EntryAsAggregated(transcripts, global_concepts[i])
        /\ \A i, j \in DOMAIN global_concepts :
              Scenario4(transcripts, global_concepts[i][1], global_concepts[j][1])
                 => /\ global_concepts[i][2] = 25
                    /\ global_concepts[j][2] = 4
                    /\ i < j

\* Scenario 4 has been aggregated.
C9_Witness ==
    /\ pc = "aggregated"
    /\ Len(transcripts) = 5
    /\ \E i, j \in DOMAIN global_concepts :
          /\ Scenario4(transcripts, global_concepts[i][1], global_concepts[j][1])
          /\ global_concepts[i] = <<"loop", 25, 5>>
          /\ global_concepts[j] = <<"variable", 4, 1>>

\* A returned concept that one document lists twice.
C9_WitnessRepeated ==
    /\ pc = "aggregated"
    /\ \E i \in DOMAIN global_concepts :
          \E p, q \in Places(transcripts, global_concepts[i][1]) :
              p[1] = q[1] /\ p[2] # q[2]

\* C10: the result has min(top_n, number of concepts) entries, one per
\* concept, in descending order of importance; the concepts left out rank
\* no higher than any returned one; among equal importance the concept
\* first seen earlier in the documents comes first (and is the one kept).
C10_RankedTopN ==
    pc = "aggregated" =>
        LET all == Listed(transcripts)
            out == {global_concepts[i][1] : i \in DOMAIN global_concepts}
        IN /\ Len(global_concepts) <= top_n
           /\ Len(global_concepts) =
                 (IF top_n < Cardinality(all) THEN top_n ELSE Cardinality(all))
           /\ Cardinality(out) = Len(global_concepts)
           /\ out \subseteq all
           /\ \A i, j \in DOMAIN global_concepts :
                 i < j =>
                    \/ global_concepts[i][2] > global_concepts[j][2]
                    \/ /\ global_concepts[i][2] = global_concepts[j][2]
                       /\ Earlier(FirstSeen(transcripts, global_concepts[i][1]),
                                  FirstSeen(transcripts, global_concepts[j][1]))
           /\ \A c \in out : \A d \in all \ out :
                 \/ Importance(transcripts, c) > Importance(transcripts, d)
                 \/ /\ Importance(transcripts, c) = Importance(transcripts, d)
                    /\ Earlier(FirstSeen(transcripts, c), FirstSeen(transcripts, d))

\* A tie decided by the cut at top_n: a concept left out has the importance
\* of the last one returned.
C10_Witness ==
    /\ pc = "aggregated"
    /\ Len(global_concepts) = top_n
    /\ top_n > 0
    /\ \E d \in Listed(transcripts) :
          /\ \A i \in DOMAIN global_concepts : global_concepts[i][1] # d
          /\ Importance(transcripts, d) = global_concepts[Len(global_concepts)][2]

\* A tie inside the result.
C10_WitnessTie ==
    /\ pc = "aggregated"
    /\ \E i \in DOMAIN global_concepts :
          /\ i + 1 \in DOMAIN global_concepts
          /\ global_concepts[i][2] = global_concepts[i + 1][2]

(***************************************************************************)
(* Properties of the pipeline.                                             *)
(***************************************************************************)
Built == pc # "start"

\* The sentence of scenario 2, as _split_sentences returns it.
Scenario2Sentence == <<"understanding", "recursion", "requires", "understanding", "functions">>

\* Scenario 2: two documents, the sentence in the text of document 0 and
\* nowhere another sentence, the candidate concepts recursion and functions.
Scenario2 ==
    /\ Len(transcripts) = 2
    /\ split_sentences(transcripts[1].cleaned_text) = <<Scenario2Sentence>>
    /\ AllSentences(transcripts) = <<Scenario2Sentence>>
    /\ ConceptSet(global_concepts) = {"recursion", "functions"}

\* Some sentence of the batch states, by a template of the catalogue, that p
\* is the prerequisite of d.
TextStates(ts, p, d) ==
    LET sentences == AllSentences(ts)
    IN \E i \in DOMAIN sentences : \E k \in DOMAIN CAUSAL_PATTERNS :
          IF CAUSAL_PATTERNS[k].lead = "c1"
          THEN SearchTemplate(sentences[i], p, CAUSAL_PATTERNS[k].phrases, d)
          ELSE SearchTemplate(sentences[i], d, CAUSAL_PATTERNS[k].phrases, p)

\* The foundational score of a node, from its attributes.
ScoreOfNode(g, c) ==
    g.attr[c].video_count * 50 + g.attr[c].frequency - g.attr[c].first_video * 10

\* C5: determinism.  The result of the pipeline is the same whatever order
\* list(concept_set) enumerates the candidate concepts in.
C5_Determinism ==
    pc = "done" =>
        \A names \in Enumerations(ConceptSet(global_concepts)) :
            compute_levels(build_concept_graph(transcripts, top_n,
                                               cooccurrence_threshold, names),
                           pagerank_ok) = ordered_concepts

\* C6: scenario 2.  The causal matcher emits the vote functions -> recursion
\* and the result places functions at level 0 and recursion at level 1.
C6_Scenario2 ==
    (Built /\ Scenario2) =>
        /\ <<"functions", "recursion">> \in
               Range(find_causal_edges(transcripts, concept_names).keys)
        /\ Returned =>
              /\ LevelsIn(ordered_concepts, "functions") = {0}
              /\ LevelsIn(ordered_concepts, "recursion") = {1}

\* C7: a causal vote always wins.  For every vote (p, d) with count k between
\* top-N concepts the graph has the edge p -> d with weight 3 * k and origin
\* causal, and no co-occurrence edge joins p and d in either direction.
C7_CausalVoteWins ==
    Built =>
        LET causal_edges == find_causal_edges(transcripts, concept_names)
        IN \A i \in DOMAIN causal_edges.keys :
              LET p == causal_edges.keys[i][1]
                  d == causal_edges.keys[i][2]
                  k == causal_edges.val[causal_edges.keys[i]]
              IN (p \in ConceptSet(global_concepts) /\ d \in ConceptSet(global_concepts))
                 => /\ has_edge(heap[G], p, d)
                    /\ EdgeData(heap[G], p, d) = [weight |-> 3 * k, source |-> "causal"]
                    /\ \A j \in DOMAIN heap[G].edges :
                          {heap[G].edges[j].u, heap[G].edges[j].v} = {p, d}
                             => heap[G].edges[j].data.source # "cooccurrence"

\* A vote (p, d) for a pair whose co-occurrence count reaches the threshold
\* and whose scores would have put d first.
C7_Witness ==
    /\ pc = "built"
    /\ LET causal_edges == find_causal_edges(transcripts, concept_names)
           cooccurrence == build_sentence_cooccurrence(transcripts, concept_names)
       IN \E i \in DOMAIN causal_edges.keys :
             LET p == causal_edges.keys[i][1]
                 d == causal_edges.keys[i][2]
             IN /\ Get(cooccurrence.val, <<p, d>>, 0) >= cooccurrence_threshold
                /\ ScoreOfNode(heap[G], d) > ScoreOfNode(heap[G], p)
                /\ has_edge(heap[G], p, d)

\* C8: no antiparallel pair.  For any two concepts A and B the graph
\* build_concept_graph returns has at most one of A -> B and B -> A.
C8_NoAntiparallel ==
    Built =>
        \A e \in EdgeSet(heap[G]) :
            e[1] # e[2] => <<e[2], e[1]>> \notin EdgeSet(heap[G])

\* The texts state both directions between two concepts, and the graph joins
\* them by an edge.
C8_Witness ==
    /\ pc = "built"
    /\ \E p, d \in ConceptSet(global_concepts) :
          /\ p # d
          /\ TextStates(transcripts, p, d)
          /\ TextStates(transcripts, d, p)
          /\ has_edge(heap[G], p, d)

(***************************************************************************)
(* Properties of the pipeline on degenerate input.                         *)
(***************************************************************************)
\* No document, no concept in any document, or nothing kept by the cut.
NoCandidates ==
    \/ Len(transcripts) = 0
    \/ top_n = 0
    \/ \A i \in DOMAIN transcripts : Get(transcripts[i], "concepts", <<>>) = <<>>

\* C11: empty input is not an error.  With no document or no concept left by
\* the top-N cut, nothing is raised and every stage returns its empty value:
\* the aggregate, the graph, the acyclic graph, the scores, ordered_concepts
\* and level_groups.
C11_EmptyInput ==
    NoCandidates =>
        /\ pc # "raised"
        /\ Built => (global_concepts = <<>> /\ heap[G] = EmptyGraph)
        /\ AfterBreakCycles => heap[dag] = EmptyGraph
        /\ pc \in {"leveling", "levelled", "done"} => scores = EmptyDict
        /\ Returned => ordered_concepts = <<>>
        /\ pc = "done" => level_groups = NoGroups

\* The pipeline has run to its end with top_n = 0 on documents that list
\* concepts and whose texts have sentences.
C11_Witness ==
    /\ pc = "done"
    /\ top_n = 0
    /\ \E i \in DOMAIN transcripts :
          /\ transcripts[i].concepts # <<>>
          /\ split_sentences(transcripts[i].cleaned_text) # <<>>

(***************************************************************************)
(* Properties of the levels and of the returned list.                      *)
(***************************************************************************)
\* The paths of g that start at a node without predecessors and end at n.
PathsFromRoots(g, n) ==
    {p \in DistinctSeqs(NodeSet(g), Len(g.nodes)) :
        /\ p # <<>>
        /\ p[Len(p)] = n
        /\ in_degree(g, p[1]) = 0
        /\ \A i \in 1..(Len(p) - 1) : has_edge(g, p[i], p[i + 1])}

\* The number of edges of the longest of them.
LongestPathTo(g, n) == Max({Len(p) - 1 : p \in PathsFromRoots(g, n)})

\* The level of a concept in the returned list.
LevelIn(ordered, c) == CHOOSE l \in LevelsIn(ordered, c) : TRUE

\* C12: the level of every node is the length of the longest path that ends
\* at it from a node without predecessors in the acyclic graph: 0 exactly
\* for the nodes without incoming edge, and otherwise 1 + the greatest level
\* of its predecessors.
C12_LongestPath ==
    Returned =>
        \A n \in NodeSet(heap[dag]) :
            LET preds == predecessors(heap[dag], n)
            IN /\ LevelsIn(ordered_concepts, n) = {LongestPathTo(heap[dag], n)}
               /\ (LevelIn(ordered_concepts, n) = 0 <=> preds = <<>>)
               /\ preds # <<>> =>
                     LevelIn(ordered_concepts, n) =
                         1 + Max({LevelIn(ordered_concepts, preds[i]) : i \in DOMAIN preds})

\* A node at level 2 that also has a predecessor at level 0: its shortest
\* path from a root is shorter than its longest.
C12_Witness ==
    /\ Returned
    /\ \E n \in NodeSet(heap[dag]) :
          /\ LevelsIn(ordered_concepts, n) = {2}
          /\ \E p \in Range(predecessors(heap[dag], n)) :
                LevelsIn(ordered_concepts, p) = {0}

\* C13: the returned list is sorted by level ascending and, within a level,
\* by score descending: of two consecutive entries the first has the lower
\* level, or the same level and a score not lower.
C13_SortedByLevelThenScore ==
    Returned =>
        \A i \in 1..(Len(ordered_concepts) - 1) :
            LET x == ordered_concepts[i]
                y == ordered_concepts[i + 1]
            IN x[1] < y[1] \/ (x[1] = y[1] /\ x[3] >= y[3])

\* The list before the sort, in the order of the levels dict.
Unsorted == [i \in DOMAIN levels |-> <<levels[i][2], levels[i][1], Get(scores, levels[i][1], 0)>>]

\* The sort moved entries: two concepts of one level with different scores
\* came out in the order opposite to that of the levels dict.
C13_Witness ==
    /\ Returned
    /\ \E i, j \in DOMAIN Unsorted :
          /\ i < j
          /\ Unsorted[i][1] = Unsorted[j][1]
          /\ Unsorted[i][3] < Unsorted[j][3]
    /\ \E i \in 1..(Len(ordered_concepts) - 1) :
          /\ ordered_concepts[i][1] = ordered_concepts[i + 1][1]
          /\ ordered_concepts[i][3] > ordered_concepts[i + 1][3]

\* The entries of ordered_concepts at one level, as (concept, score), in order.
EntriesAt(ordered, level) ==
    MapSeq(SelectSeq(ordered, LAMBDA x : x[1] = level), LAMBDA x : <<x[2], x[3]>>)

\* The groups put end to end in the order of `keys`, each entry with its level.
Rebuilt(groups, keys) ==
    Concat([i \in DOMAIN keys |->
              MapSeq(groups.val[keys[i]], LAMBDA it : <<keys[i], it[1], it[2]>>)])

\* C14: get_level_groups is a pure re-bucketing of ordered_concepts.  The
\* levels of the groups are those of the entries, each once; the group of a
\* level is the entries of that level in their order, so no group is empty
\* and nothing is added or lost; and the groups put end to end by ascending
\* level are ordered_concepts again.
C14_Rebucketing ==
    pc = "done" =>
        /\ Range(level_groups.keys) = {ordered_concepts[i][1] : i \in DOMAIN ordered_concepts}
        /\ DOMAIN level_groups.val = Range(level_groups.keys)
        /\ Cardinality(Range(level_groups.keys)) = Len(level_groups.keys)
        /\ \A l \in Range(level_groups.keys) :
              /\ level_groups.val[l] # <<>>
              /\ level_groups.val[l] = EntriesAt(ordered_concepts, l)
        /\ \A i \in 1..(Len(level_groups.keys) - 1) :
              level_groups.keys[i] < level_groups.keys[i + 1]
        /\ Rebuilt(level_groups, level_groups.keys) = ordered_concepts

\* Two levels, one of them with two concepts of different scores.
C14_Witness ==
    /\ pc = "done"
    /\ Len(level_groups.keys) >= 2
    /\ \E l \in Range(level_groups.keys) :
          /\ Len(level_groups.val[l]) >= 2
          /\ level_groups.val[l][1][2] # level_groups.val[l][2][2]

\* C15: the structures returned are consistent.  The nodes of the assembled
\* graph are the top-N concepts, each once and with its attributes; every
\* edge of the assembled graph and of the acyclic graph joins two of them;
\* the acyclic graph has the same nodes; and every concept of
\* ordered_concepts is a node of the graph.
C15_Consistent ==
    /\ Built =>
          /\ NodeSet(heap[G]) = ConceptSet(global_concepts)
          /\ Cardinality(NodeSet(heap[G])) = Len(heap[G].nodes)
          /\ DOMAIN heap[G].attr = NodeSet(heap[G])
          /\ \A e \in EdgeSet(heap[G]) :
                e[1] \in ConceptSet(global_concepts) /\ e[2] \in ConceptSet(global_concepts)
    /\ AfterBreakCycles =>
          /\ heap[dag].nodes = heap[G].nodes
          /\ \A e \in EdgeSet(heap[dag]) :
                e[1] \in NodeSet(heap[dag]) /\ e[2] \in NodeSet(heap[dag])
    /\ Returned =>
          \A i \in DOMAIN ordered_concepts : ordered_concepts[i][2] \in NodeSet(heap[G])

\* The result of a run on a graph with an edge, whose texts have a word that
\* is no candidate in a sentence with two candidates.
C15_Witness ==
    /\ Returned
    /\ ordered_concepts # <<>>
    /\ EdgeSet(heap[G]) # {}
    /\ \E i \in DOMAIN AllSentences(transcripts) :
          /\ InSentence("understanding", AllSentences(transcripts)[i])
          /\ Cardinality({c \in ConceptSet(global_concepts) :
                             InSentence(c, AllSentences(transcripts)[i])}) >= 2

(***************************************************************************)
(* Properties of the Cycle Resolver.                                       *)
(***************************************************************************)
\* The weight of an edge of the input graph, 1 if unset.
InputWeight(u, v) == Get(EdgeData(G_in, u, v), "weight", 1)

\* Scenario 3: the cycle A -> B -> C -> A with the weights 5, 1, 5.
Scenario3 ==
    /\ pc # "built"
    /\ NodeSet(G_in) = {"A", "B", "C"}
    /\ EdgeSet(G_in) = {<<"A", "B">>, <<"B", "C">>, <<"C", "A">>}
    /\ InputWeight("A", "B") = 5
    /\ InputWeight("B", "C") = 1
    /\ InputWeight("C", "A") = 5

\* C16: scenario 3.  The Cycle Resolver removes B -> C and nothing else, the
\* acyclic graph has the edges A -> B and C -> A, and the levels are C = 0,
\* A = 1, B = 2.
C16_Scenario3 ==
    Scenario3 =>
        /\ pc = "breaking" =>
              \/ iterations = 0 /\ EdgeSet(heap[H]) = EdgeSet(G_in)
              \/ iterations = 1 /\ EdgeSet(heap[H]) = {<<"A", "B">>, <<"C", "A">>}
        /\ AfterBreakCycles =>
              /\ iterations = 1
              /\ EdgeSet(heap[dag]) = {<<"A", "B">>, <<"C", "A">>}
        /\ Returned =>
              /\ LevelsIn(ordered_concepts, "C") = {0}
              /\ LevelsIn(ordered_concepts, "A") = {1}
              /\ LevelsIn(ordered_concepts, "B") = {2}

\* Scenario 3 has been levelled.
C16_Witness == Scenario3 /\ Returned /\ Len(ordered_concepts) = 3

(***************************************************************************)
(* Properties of the Centrality Scorer.                                    *)
(***************************************************************************)
\* The floating tolerance, in units of the fixed point: a division rounds
\* down by less than one unit, and a round of the iteration makes one
\* division per edge and two per node.
Tolerance == (PowerIterations + 1) * (MaxEdges + 2 * Len(NodePool))

\* The sum of the scores of the nodes of g.
TotalScore(g, sc) == SumSeq(MapSeq(g.nodes, LAMBDA n : sc[n]))

Scored == pc \in {"leveling", "levelled", "done"}

\* C17: score conservation.  For a non-empty graph the scores returned by
\* get_node_scores have one value per node and sum to 1 within the
\* tolerance, on the PageRank path and on the fallback path.
C17_ScoreConservation ==
    (Scored /\ heap[G].nodes # <<>>) =>
        /\ DOMAIN scores = NodeSet(heap[G])
        /\ TotalScore(heap[G], scores) >= Unit - Tolerance
        /\ TotalScore(heap[G], scores) <= Unit + Tolerance

\* PageRank returned on a graph with a node without out-edges and edges of
\* different weights, and the scores are not all the same.
C17_Witness ==
    /\ Scored
    /\ pagerank_ok
    /\ Dangling(heap[G]) # {}
    /\ \E e, f \in DOMAIN heap[G].edges :
          Get(heap[G].edges[e].data, "weight", 1) # Get(heap[G].edges[f].data, "weight", 1)
    /\ \E n, m \in NodeSet(heap[G]) : scores[n] # scores[m]

\* C18: the Centrality Scorer never fails the pipeline.  On the empty graph
\* the scores are the empty map; when nx.pagerank raises, every node gets
\* 1/|nodes| and compute_levels goes on to the levels with these scores.
C18_ScorerNeverFails ==
    /\ pc # "raised"
    /\ Scored =>
          /\ heap[G].nodes = <<>> => scores = EmptyDict
          /\ (heap[G].nodes # <<>> /\ ~pagerank_ok) =>
                scores = [n \in NodeSet(heap[G]) |-> Unit \div Len(heap[G].nodes)]
    /\ (Returned /\ ~pagerank_ok) =>
          /\ Len(ordered_concepts) = Len(heap[G].nodes)
          /\ \A i \in DOMAIN ordered_concepts :
                ordered_concepts[i][3] = Unit \div Len(heap[G].nodes)

\* nx.pagerank raised on a graph it would not have scored uniformly, and
\* compute_levels returned.
C18_Witness ==
    /\ Returned
    /\ ~pagerank_ok
    /\ Len(heap[G].nodes) >= 2
    /\ pagerank(heap[G]) # scores

(***************************************************************************)
(* Properties of the causal matcher.                                       *)
(***************************************************************************)
\* C19: causal template direction.  When a sentence states by a template of
\* the catalogue that candidate p is the prerequisite of candidate d ("p
\* leads to d", "d depends on p"), and no sentence states the opposite, the
\* matcher has the vote p -> d and no vote d -> p, whichever of p and d
\* comes first in concept_names.
C19_TemplateDirection ==
    Built =>
        \A p, d \in ConceptSet(global_concepts) :
            (/\ p # d
             /\ TextStates(transcripts, p, d)
             /\ ~TextStates(transcripts, d, p))
            => LET causal_edges == find_causal_edges(transcripts, concept_names)
               IN /\ <<p, d>> \in Range(causal_edges.keys)
                  /\ <<d, p>> \notin Range(causal_edges.keys)

\* The weight of an edge of the graph H refers to, 1 if unset.
WeightInH(e) == Get(EdgeData(heap[H], e[1], e[2]), "weight", 1)

\* C20: an iteration of the loop of _break_cycles that detects a cycle
\* removes one edge and leaves the others as they were; the edge removed is
\* an edge of the detected cycle, no edge of the cycle weighs less (1 if
\* unset), and the edges before it in the cycle's enumeration weigh more.
C20_WeakestEdgeRemoved ==
    [][(pc = "breaking" /\ iterations' = iterations + 1) =>
          LET cycle == find_cycle(heap[H]).cycle
          IN \E j \in DOMAIN cycle :
                /\ \A k \in DOMAIN cycle : WeightInH(cycle[j]) <= WeightInH(cycle[k])
                /\ \A k \in 1..(j - 1) : WeightInH(cycle[k]) > WeightInH(cycle[j])
                /\ heap'[H].nodes = heap[H].nodes
                /\ heap'[H].edges =
                       SelectSeq(heap[H].edges,
                                 LAMBDA e : <<e.u, e.v>> # cycle[j])
                /\ Len(heap'[H].edges) = Len(heap[H].edges) - 1
                /\ \A r \in DOMAIN heap : r # H => heap'[r] = heap[r]
      ]_vars

\* After the first iteration: the cycle detected in the input had several
\* edges of least weight and an edge outside it lighter than all of them, and
\* the first of the least has been removed.
C20_Witness ==
    /\ pc = "breaking"
    /\ iterations = 1
    /\ LET g == CopiedValue(G_in)
           cycle == find_cycle(g).cycle
           w(e) == Get(EdgeData(g, e[1], e[2]), "weight", 1)
       IN /\ find_cycle(g).found
          /\ \E i, j \in DOMAIN cycle :
                /\ i < j
                /\ w(cycle[i]) = w(cycle[j])
                /\ \A k \in DOMAIN cycle : w(cycle[i]) <= w(cycle[k])
                /\ \A k \in 1..(i - 1) : w(cycle[k]) > w(cycle[i])
                /\ ~has_edge(heap[H], cycle[i][1], cycle[i][2])
          /\ \E e \in EdgeSet(g) \ Range(cycle) :
                /\ \A k \in DOMAIN cycle : w(e) < w(cycle[k])
                /\ has_edge(heap[H], e[1], e[2])

(***************************************************************************)
(* Properties of the Graph Assembler.                                      *)
(***************************************************************************)
\* The edges of g that join a and b, in either direction.
EdgesBetween(g, a, b) == SelectSeq(g.edges, LAMBDA e : {e.u, e.v} = {a, b})

\* Scenario 1: the one document of the scenario.
Scenario1 == transcripts = <<Scenario1Document>> /\ top_n >= 2

\* C21: co-occurrence edges obey the threshold.  For two top-N concepts not
\* joined by a causal edge, the graph has no edge between them when their
\* co-occurrence count is below the threshold, and otherwise one edge, with
\* the count as weight and origin cooccurrence.  In scenario 1 the graph is
\* two isolated nodes, both at level 0.
C21_Threshold ==
    /\ pc = "built" =>
          LET cooccurrence == build_sentence_cooccurrence(transcripts, concept_names)
          IN \A a, b \in ConceptSet(global_concepts) :
                LET between == EdgesBetween(heap[G], a, b)
                    count == Get(cooccurrence.val, <<a, b>>, 0)
                IN (/\ a # b
                    /\ \A i \in DOMAIN between : Get(between[i].data, "source", "") # "causal")
                   => IF count < cooccurrence_threshold
                      THEN between = <<>>
                      ELSE /\ Len(between) = 1
                           /\ between[1].data = [weight |-> count, source |-> "cooccurrence"]
    /\ (Built /\ Scenario1) =>
          /\ NodeSet(heap[G]) = {"loop", "variable"}
          /\ heap[G].edges = <<>>
    /\ (Returned /\ Scenario1) =>
          /\ LevelsIn(ordered_concepts, "loop") = {0}
          /\ LevelsIn(ordered_concepts, "variable") = {0}

\* With the threshold 2, a pair counted twice has its edge and a pair counted
\* less has none.
C21_Witness ==
    /\ pc = "built"
    /\ cooccurrence_threshold = 2
    /\ LET cooccurrence == build_sentence_cooccurrence(transcripts, concept_names)
       IN /\ \E a, b \in ConceptSet(global_concepts) :
                /\ Get(cooccurrence.val, <<a, b>>, 0) = 2
                /\ Len(EdgesBetween(heap[G], a, b)) = 1
                /\ EdgesBetween(heap[G], a, b)[1].data.source = "cooccurrence"
          /\ \E a, b \in ConceptSet(global_concepts) :
                /\ a # b
                /\ Get(cooccurrence.val, <<a, b>>, 0) < 2
                /\ EdgesBetween(heap[G], a, b) = <<>>

\* Scenario 1 has been levelled.
C21_WitnessScenario1 == Returned /\ Scenario1 /\ Len(ordered_concepts) = 2

\* The place of a concept in the enumeration.
PositionIn(names, c) == CHOOSE i \in DOMAIN names : names[i] = c

\* The index, from 0, of the earliest document that lists the concept.
FirstDocumentIndex(ts, c) == FirstSeen(ts, c)[1] - 1

\* score(X) = document_spread(X) * 50 + frequency(X) - first_document_index(X) * 10,
\* with the spread and the index read from the documents and the frequency
\* from the node.
SpecScore(c) ==
    DocumentSpread(transcripts, c) * 50 + heap[G].attr[c].frequency
        - FirstDocumentIndex(transcripts, c) * 10

\* The co-occurrence edges of the assembled graph, as pairs <<tail, head>>.
CooccurrenceEdges ==
    {<<heap[G].edges[i].u, heap[G].edges[i].v>> :
        i \in {j \in DOMAIN heap[G].edges : heap[G].edges[j].data.source = "cooccurrence"}}

\* C22: the direction of a co-occurrence edge follows the foundational
\* score.  The tail has the higher score, or the two scores are equal and the
\* tail is the concept that comes first in the enumeration of the pairs.
C22_Direction ==
    pc = "built" =>
        \A e \in CooccurrenceEdges :
            \/ SpecScore(e[1]) > SpecScore(e[2])
            \/ /\ SpecScore(e[1]) = SpecScore(e[2])
               /\ PositionIn(concept_names, e[1]) < PositionIn(concept_names, e[2])

\* One edge decided by a tie, and one whose tail has the higher score and
\* comes later in the enumeration than its head.
C22_Witness ==
    /\ pc = "built"
    /\ \E e \in CooccurrenceEdges : SpecScore(e[1]) = SpecScore(e[2])
    /\ \E e \in CooccurrenceEdges :
          /\ SpecScore(e[1]) > SpecScore(e[2])
          /\ PositionIn(concept_names, e[1]) > PositionIn(concept_names, e[2])

(***************************************************************************)
(* Properties of the Co-occurrence Analyzer and of the causal matcher.     *)
(***************************************************************************)
\* The sentences of the batch in which both a and b occur.
SharedSentences(ts, a, b) ==
    LET sentences == AllSentences(ts)
    IN {i \in DOMAIN sentences :
           InSentence(a, sentences[i]) /\ InSentence(b, sentences[i])}

\* C23: the co-occurrence map is symmetric, and the count of two different
\* candidate concepts is the number of sentences of the batch in which both
\* occur.
C23_SymmetricCounts ==
    pc = "built" =>
        LET cooccurrence == build_sentence_cooccurrence(transcripts, concept_names)
        IN /\ \A a, b \in ConceptSet(global_concepts) :
                 a # b =>
                    /\ Get(cooccurrence.val, <<a, b>>, 0) = Get(cooccurrence.val, <<b, a>>, 0)
                    /\ Get(cooccurrence.val, <<a, b>>, 0) =
                           Cardinality(SharedSentences(transcripts, a, b))
           /\ \A key \in Range(cooccurrence.keys) :
                 /\ key[1] \in ConceptSet(global_concepts)
                 /\ key[2] \in ConceptSet(global_concepts)
                 /\ key[1] # key[2]

\* Two documents: a pair is counted twice, in sentences where one of the two
\* occurs only inside a longer word.
C23_Witness ==
    /\ pc = "built"
    /\ Len(transcripts) = 2
    /\ LET cooccurrence == build_sentence_cooccurrence(transcripts, concept_names)
       IN \E a, b \in ConceptSet(global_concepts) :
             /\ Get(cooccurrence.val, <<a, b>>, 0) = 2
             /\ \A i \in SharedSentences(transcripts, a, b) :
                   a \notin Range(AllSentences(transcripts)[i])

\* The votes the matcher returned for the key (a, b).
Votes(causal_edges, a, b) == Get(causal_edges.val, <<a, b>>, 0)

\* The templates of the catalogue that match a sentence for the pair taken
\* as (c1, c2).
MatchingTemplates(sentence, c1, c2) ==
    {k \in DOMAIN CAUSAL_PATTERNS : PatternMatches(CAUSAL_PATTERNS[k], sentence, c1, c2)}

\* The sentences of the batch that some template matches for (c1, c2).
MatchedSentences(ts, c1, c2) ==
    LET sentences == AllSentences(ts)
    IN {i \in DOMAIN sentences : MatchingTemplates(sentences[i], c1, c2) # {}}

\* C24: a sentence gives at most one causal vote to an unordered pair.  The
\* votes of a and b, both directions together, are the sentences of the whole
\* batch that some template matches for the pair as the matcher takes it,
\* each counted once, and are never more than the sentences that contain
\* both a and b.
C24_OneVotePerSentence ==
    pc = "built" =>
        LET causal_edges == find_causal_edges(transcripts, concept_names)
        IN \A a, b \in ConceptSet(global_concepts) :
              PositionIn(concept_names, a) < PositionIn(concept_names, b) =>
                 /\ Votes(causal_edges, a, b) + Votes(causal_edges, b, a)
                        <= Cardinality(SharedSentences(transcripts, a, b))
                 /\ Votes(causal_edges, a, b) + Votes(causal_edges, b, a)
                        = Cardinality(MatchedSentences(transcripts, a, b))

\* Two documents give two votes to a pair, one of them from a sentence that
\* two templates match.
C24_Witness ==
    /\ pc = "built"
    /\ Len(transcripts) = 2
    /\ LET causal_edges == find_causal_edges(transcripts, concept_names)
       IN \E a, b \in ConceptSet(global_concepts) :
             /\ Votes(causal_edges, a, b) = 2
             /\ \E i \in DOMAIN AllSentences(transcripts) :
                   Cardinality(MatchingTemplates(AllSentences(transcripts)[i], a, b)) >= 2

(***************************************************************************)
(* Properties of the node attributes.                                      *)
(***************************************************************************)
\* The first_video attribute line 156 gives to a node whose concept is in no
\* document: add_node with an empty temporal_order.
AttributeWhenAbsent(c) ==
    AddNodes(EmptyGraph, <<<<c, 1, 1>>>>, EmptyDict).attr[c].first_video

\* The index lines 177-186 use in the score of such a concept: the score of
\* a concept with spread 1 and frequency 0 is 50 - index * 10.
ScoreIndexWhenAbsent(c) ==
    (50 - FoundationalScore(c, EmptyDict, [k \in {c} |-> 0], [k \in {c} |-> 1])) \div 10

EdgesOfOrigin(g, origin) ==
    [g EXCEPT !.edges = SelectSeq(@, LAMBDA e : Get(e.data, "source", "") = origin)]

\* C26: every directed cycle of the assembled graph has a causal edge and a
\* co-occurrence edge.  The causal edges alone form an acyclic graph, each
\* going from a concept to one later in the enumeration, and the
\* co-occurrence edges alone form an acyclic graph.
C26_CyclesAreMixed ==
    pc = "built" =>
        /\ ~HasDirectedCycle(EdgesOfOrigin(heap[G], "causal"))
        /\ ~HasDirectedCycle(EdgesOfOrigin(heap[G], "cooccurrence"))
        /\ \A e \in EdgeSet(EdgesOfOrigin(heap[G], "causal")) :
              PositionIn(concept_names, e[1]) < PositionIn(concept_names, e[2])
        /\ \A i \in DOMAIN heap[G].edges :
              Get(heap[G].edges[i].data, "source", "") \in {"causal", "cooccurrence"}

\* The assembled graph has a directed cycle.
C26_Witness ==
    /\ pc = "built"
    /\ HasDirectedCycle(heap[G])
    /\ EdgeSet(EdgesOfOrigin(heap[G], "causal")) # {}
    /\ EdgeSet(EdgesOfOrigin(heap[G], "cooccurrence")) # {}

\* The edge e of g lies on a directed cycle of g: its head reaches its tail.
OnCycle(g, e) == e[1] \in Closure(EdgeSet(g), {e[2]})

\* C27: the Cycle Resolver only prunes edges that lie on a cycle.  Its
\* output has the nodes of the input and a part of its edges, each with its
\* attributes; every edge of the input that lies on no directed cycle is
\* kept; an acyclic input comes back with exactly its edges; and applying
\* _break_cycles to the output gives the output.
C27_OnlyCycleEdgesPruned ==
    AfterBreakCycles =>
        /\ heap[dag].nodes = G_in.nodes
        /\ heap[dag].attr = G_in.attr
        /\ Range(heap[dag].edges) \subseteq Range(G_in.edges)
        /\ \A e \in EdgeSet(G_in) : ~OnCycle(G_in, e) => has_edge(heap[dag], e[1], e[2])
        /\ ~HasDirectedCycle(G_in) =>
              /\ iterations = 0
              /\ Range(heap[dag].edges) = Range(G_in.edges)
        /\ break_cycles(heap[dag]) = heap[dag]

\* The input had a cycle and, outside every cycle, an edge lighter than each
\* edge that was removed.
C27_Witness ==
    /\ pc = "scoring"
    /\ iterations > 0
    /\ \E e \in EdgeSet(G_in) :
          /\ ~OnCycle(G_in, e)
          /\ \A f \in EdgeSet(G_in) \ EdgeSet(heap[dag]) :
                Get(EdgeData(G_in, e[1], e[2]), "weight", 1)
                    < Get(EdgeData(G_in, f[1], f[2]), "weight", 1)

\* The entries of the returned list for one concept.
EntriesOf(ordered, c) == {i \in DOMAIN ordered : ordered[i][2] = c}

\* C28: ordered_concepts lists every node of the graph exactly once, the
\* nodes without edges at level 0, and the levels are contiguous: a graph
\* with nodes has a node at level 0, every node at a level k > 0 has a
\* predecessor at level k - 1 in the acyclic graph, and no level exceeds
\* |nodes| - 1.
C28_EveryNodeOnceContiguousLevels ==
    Returned =>
        /\ Len(ordered_concepts) = Len(heap[G].nodes)
        /\ \A n \in NodeSet(heap[G]) : Cardinality(EntriesOf(ordered_concepts, n)) = 1
        /\ \A i \in DOMAIN ordered_concepts : ordered_concepts[i][2] \in NodeSet(heap[G])
        /\ \A n \in NodeSet(heap[G]) :
              (predecessors(heap[G], n) = <<>> /\ successors(heap[G], n) = <<>>)
                  => LevelsIn(ordered_concepts, n) = {0}
        /\ heap[G].nodes # <<>> => \E i \in DOMAIN ordered_concepts : ordered_concepts[i][1] = 0
        /\ \A i \in DOMAIN ordered_concepts :
              LET k == ordered_concepts[i][1]
              IN /\ k >= 0
                 /\ k <= Len(heap[G].nodes) - 1
                 /\ k > 0 =>
                       \E p \in Range(predecessors(heap[dag], ordered_concepts[i][2])) :
                           LevelsIn(ordered_concepts, p) = {k - 1}

\* A node without edges next to two joined nodes.
C28_Witness ==
    /\ Returned
    /\ Len(heap[G].nodes) = 3
    /\ \E n \in NodeSet(heap[G]) :
          predecessors(heap[G], n) = <<>> /\ successors(heap[G], n) = <<>>
    /\ \E i \in DOMAIN ordered_concepts : ordered_concepts[i][1] = 1

\* The foundational score with the importance in the place of the
\* frequency: the spread enters it twice.
ScoreWithImportance(c) ==
    DocumentSpread(transcripts, c) * 50
        + TotalFrequency(transcripts, c) * DocumentSpread(transcripts, c)
        - FirstDocumentIndex(transcripts, c) * 10

\* C29: the frequency attribute of a node, which is also the frequency of
\* the foundational score, is the importance total_frequency *
\* document_spread of the aggregator, not the total frequency: every
\* co-occurrence edge follows the score computed with the importance.
C29_FrequencyIsImportance ==
    pc = "built" =>
        /\ \A c \in NodeSet(heap[G]) :
              /\ heap[G].attr[c].frequency =
                     TotalFrequency(transcripts, c) * DocumentSpread(transcripts, c)
              /\ heap[G].attr[c].video_count = DocumentSpread(transcripts, c)
        /\ \A e \in CooccurrenceEdges :
              \/ ScoreWithImportance(e[1]) > ScoreWithImportance(e[2])
              \/ /\ ScoreWithImportance(e[1]) = ScoreWithImportance(e[2])
                 /\ PositionIn(concept_names, e[1]) < PositionIn(concept_names, e[2])

\* A co-occurrence edge between two concepts listed in both documents, whose
\* importance is not their total frequency.
C29_Witness ==
    /\ pc = "built"
    /\ \E e \in CooccurrenceEdges :
          /\ DocumentSpread(transcripts, e[1]) = 2
          /\ DocumentSpread(transcripts, e[2]) = 2
          /\ heap[G].attr[e[1]].frequency # TotalFrequency(transcripts, e[1])
          /\ heap[G].attr[e[2]].frequency # TotalFrequency(transcripts, e[2])

====
